---- MODULE Spec2Model ----
(***************************************************************************)
(* Model of titanicapplication.py: the Streamlit script that loads a       *)
(* pickled classifier, validates the seven passenger attributes and asks   *)
(* the classifier for a survival label and a confidence.                   *)
(*                                                                         *)
(* Python values are tagged records (None, numbers, strings as sequences   *)
(* of characters).  Numbers are whole; confidences and class               *)
(* probabilities are in hundredths (0.8 is 80, 1.0 is 100).                *)
(***************************************************************************)
EXTENDS Integers, Sequences, FiniteSets, TLC

VARIABLES
    pc,             \* position of the script run (or of the validate_inputs call)
    run,            \* number of the current script run
    artifact,       \* what titanicpickle.pkl holds on disk
    model,          \* the value load_model returned, NoModel before
    loads,          \* load attempts made in this run
    args,           \* the seven attribute values (widgets, or the call's arguments)
    is_valid,       \* validate_inputs' first result
    error_message,  \* validate_inputs' second result
    calls,          \* log of the model invocations of this run, in order
    prediction,     \* predict_survival's first result
    confidence,     \* predict_survival's second result (hundredths)
    conf_source,    \* which branch of predict_survival set the confidence
    shown,          \* what the run rendered, in order
    last            \* the previous rendered request: its model, attributes, results

vars == <<pc, run, artifact, model, loads, args, is_valid, error_message,
          calls, prediction, confidence, conf_source, shown, last>>

----------------------------------------------------------------------------
(* Bounds of the model *)

\* longest string given to validate_inputs
MaxLen == 2
\* how far the numeric inputs reach around 0 and around the age limit
Slack == 1
\* script runs (Streamlit reruns the script on every interaction)
MaxRuns == 2
\* most classes a predict_proba row reports
MaxClasses == 2

(* Program constants *)

\* line 65: age_float > 120
AgeMax == 120
\* line 94: confidence_score = 0.8, in hundredths
DefaultConfidence == 80
\* line 99: return None, 0
ErrorConfidence == 0

----------------------------------------------------------------------------
(* Python values *)

None == [t |-> "none", n |-> 0, s |-> <<>>]
Num(k) == [t |-> "num", n |-> k, s |-> <<>>]
Str(q) == [t |-> "str", n |-> 0, s |-> q]

\* bool(v): None, 0 and the empty string are falsy
Truthy(v) ==
    CASE v.t = "none" -> FALSE
      [] v.t = "num" -> v.n # 0
      [] v.t = "str" -> v.s # <<>>

\* all([...]) of line 59
all(vs) == \A i \in 1..Len(vs) : Truthy(vs[i])

IsDigit(c) == c \in {"0", "9"}

DigitVal(c) == IF c = "9" THEN 9 ELSE 0

RECURSIVE DigitsVal(_)
DigitsVal(q) ==
    IF q = <<>> THEN 0
    ELSE 10 * DigitsVal(SubSeq(q, 1, Len(q) - 1)) + DigitVal(q[Len(q)])

AllDigits(q) == q # <<>> /\ \A i \in 1..Len(q) : IsDigit(q[i])

\* float(v) of lines 64 and 72: [ok, val]; ok = FALSE is the raised
\* TypeError (None) or ValueError (a string that is no number).  Strings are
\* over Alphabet: an optional minus sign and digits make a number
float(v) ==
    CASE v.t = "none" -> [ok |-> FALSE, val |-> 0]
      [] v.t = "num" -> [ok |-> TRUE, val |-> v.n]
      [] v.t = "str" ->
            IF AllDigits(v.s) THEN [ok |-> TRUE, val |-> DigitsVal(v.s)]
            ELSE IF Len(v.s) >= 2 /\ v.s[1] = "-" /\ AllDigits(Tail(v.s))
                 THEN [ok |-> TRUE, val |-> 0 - DigitsVal(Tail(v.s))]
                 ELSE [ok |-> FALSE, val |-> 0]

MsgRequired == "All fields are required. Please fill in all inputs."
MsgAgeRange == "Age must be between 0 and 120."
MsgAgeNumber == "Age must be a valid number."
MsgFareNegative == "Fare cannot be negative."
MsgFareNumber == "Fare must be a valid number."

\* validate_inputs, lines 56-78: <<is_valid, error_message>>
\* variant: the range checks run before the presence check
validate_inputs_RangeFirst(pclass, sex, age, sibsp, parch, fare, embarked) ==
    IF ~float(age).ok THEN <<FALSE, MsgAgeNumber>>
    ELSE IF float(age).val < 0 \/ float(age).val > AgeMax
         THEN <<FALSE, MsgAgeRange>>
    ELSE IF ~float(fare).ok THEN <<FALSE, MsgFareNumber>>
    ELSE IF float(fare).val < 0 THEN <<FALSE, MsgFareNegative>>
    ELSE IF ~all(<<pclass, sex, age, sibsp, parch, fare, embarked>>)
         THEN <<FALSE, MsgRequired>>
    ELSE <<TRUE, "">>

validate_inputs(pclass, sex, age, sibsp, parch, fare, embarked) ==
    IF ~all(<<pclass, sex, age, sibsp, parch, fare, embarked>>)
    THEN <<FALSE, MsgRequired>>
    ELSE IF ~float(age).ok THEN <<FALSE, MsgAgeNumber>>
    ELSE IF float(age).val < 0 \/ float(age).val > AgeMax
         THEN <<FALSE, MsgAgeRange>>
    ELSE IF ~float(fare).ok THEN <<FALSE, MsgFareNumber>>
    ELSE IF float(fare).val < 0 THEN <<FALSE, MsgFareNegative>>
    ELSE <<TRUE, "">>

----------------------------------------------------------------------------
(* The model capability: an unpickled classifier *)

\* class probabilities a row may hold, in hundredths
Probs == {0, 10, 20, 50, 80, 90, 100}

RECURSIVE Sum(_)
Sum(q) == IF q = <<>> THEN 0 ELSE Head(q) + Sum(Tail(q))

\* rows of per-class probabilities: one per class, adding up to 1
Rows ==
    {r \in UNION {[1..k -> Probs] : k \in 1..MaxClasses} : Sum(r) = 100}

\* what model.predict does: raise, or return [0], [1], or [the sex feature]
PredictKinds == {"raise", "zero", "one", "sex"}

NoRow == <<>>

\* predict_proba is absent, raises, or returns [row]
Models ==
    {[predict |-> p, proba |-> "absent", row |-> NoRow] : p \in PredictKinds}
    \cup {[predict |-> p, proba |-> "raise", row |-> NoRow] : p \in PredictKinds}
    \cup {[predict |-> p, proba |-> "row", row |-> r] :
             p \in PredictKinds, r \in Rows}

NoModel == [predict |-> "unset", proba |-> "unset", row |-> NoRow]

\* titanicpickle.pkl: missing, not unpicklable, or a pickled classifier
Artifacts ==
    {[state |-> "missing", obj |-> NoModel], [state |-> "corrupt", obj |-> NoModel]}
    \cup {[state |-> "ok", obj |-> m] : m \in Models}

\* max(confidence) of line 92
RECURSIVE max(_)
max(q) ==
    IF Len(q) = 1 THEN q[1]
    ELSE IF q[1] >= max(Tail(q)) THEN q[1] ELSE max(Tail(q))

\* model.predict(features): [raised, out]
model_predict(m, features) ==
    CASE m.predict = "zero" -> [raised |-> FALSE, out |-> <<Num(0)>>]
      [] m.predict = "one" -> [raised |-> FALSE, out |-> <<Num(1)>>]
      [] m.predict = "sex" -> [raised |-> FALSE, out |-> <<features[1][2]>>]
      [] OTHER -> [raised |-> TRUE, out |-> <<>>]

\* model.predict_proba(features): [raised, called, out]; an absent
\* attribute raises before anything is invoked
model_predict_proba(m, features) ==
    CASE m.proba = "row" -> [raised |-> FALSE, called |-> TRUE, out |-> <<m.row>>]
      [] m.proba = "raise" -> [raised |-> TRUE, called |-> TRUE, out |-> <<>>]
      [] OTHER -> [raised |-> TRUE, called |-> FALSE, out |-> <<>>]

Call(op, features) == [op |-> op, features |-> features]

\* line 84: features = [[pclass, sex, age, sibsp, parch, fare, embarked]]
\* variant: fare and embarked change places
Features_Swapped(pclass, sex, age, sibsp, parch, fare, embarked) ==
    << <<pclass, sex, age, sibsp, parch, embarked, fare>> >>

Features(pclass, sex, age, sibsp, parch, fare, embarked) ==
    << <<pclass, sex, age, sibsp, parch, fare, embarked>> >>

\* lines 97-99: the outer except
PredictionFailed(log) ==
    [prediction |-> None, confidence |-> ErrorConfidence, source |-> "error",
     calls |-> log, st_error |-> TRUE]

\* lines 90-94: the confidence, from predict_proba or the default
\* variant: the probabilities are ignored
Confidence_AlwaysDefault(m, features) ==
    [score |-> DefaultConfidence, source |-> "default",
     calls |-> IF model_predict_proba(m, features).called
               THEN <<Call("predict_proba", features)>> ELSE <<>>]

\* variant: the first class's probability instead of the largest
Confidence_FirstClass(m, features) ==
    LET p == model_predict_proba(m, features)
        log == IF p.called THEN <<Call("predict_proba", features)>> ELSE <<>>
    IN  IF p.raised
        THEN [score |-> DefaultConfidence, source |-> "default", calls |-> log]
        ELSE [score |-> p.out[1][1], source |-> "proba", calls |-> log]

Confidence(m, features) ==
    LET p == model_predict_proba(m, features)
        log == IF p.called THEN <<Call("predict_proba", features)>> ELSE <<>>
    IN  IF p.raised
        THEN [score |-> DefaultConfidence, source |-> "default", calls |-> log]
        ELSE [score |-> max(p.out[1]), source |-> "proba", calls |-> log]

\* predict_survival, lines 80-99
\* variant: a failed model.predict is tried a second time
predict_survival_Retry(m, pclass, sex, age, sibsp, parch, fare, embarked) ==
    LET features == Features(pclass, sex, age, sibsp, parch, fare, embarked)
        r == model_predict(m, features)
        c == Confidence(m, features)
    IN  IF r.raised
        THEN PredictionFailed(<<Call("predict", features), Call("predict", features)>>)
        ELSE [prediction |-> r.out[1], confidence |-> c.score, source |-> c.source,
              calls |-> <<Call("predict", features)>> \o c.calls,
              st_error |-> FALSE]

\* variant: a failure of predict_proba reaches the outer except
predict_survival_NoInnerExcept(m, pclass, sex, age, sibsp, parch, fare, embarked) ==
    LET features == Features(pclass, sex, age, sibsp, parch, fare, embarked)
        r == model_predict(m, features)
        c == Confidence(m, features)
    IN  IF r.raised
        THEN PredictionFailed(<<Call("predict", features)>>)
        ELSE IF model_predict_proba(m, features).raised
        THEN PredictionFailed(<<Call("predict", features)>> \o c.calls)
        ELSE [prediction |-> r.out[1], confidence |-> c.score, source |-> c.source,
              calls |-> <<Call("predict", features)>> \o c.calls,
              st_error |-> FALSE]

predict_survival(m, pclass, sex, age, sibsp, parch, fare, embarked) ==
    LET features == Features(pclass, sex, age, sibsp, parch, fare, embarked)
        r == model_predict(m, features)
        c == Confidence(m, features)
    IN  IF r.raised
        THEN PredictionFailed(<<Call("predict", features)>>)
        ELSE [prediction |-> r.out[1], confidence |-> c.score, source |-> c.source,
              calls |-> <<Call("predict", features)>> \o c.calls,
              st_error |-> FALSE]

----------------------------------------------------------------------------
(* The script run: main, lines 101-220 *)

\* the values the widgets of lines 146-166 offer (the ends of each range
\* and its default)
WidgetArgs ==
    [pclass : {Num(1), Num(3)},
     sex : {Num(0), Num(1)},
     age : {Num(0), Num(30), Num(AgeMax)},
     sibsp : {Num(0), Num(1)},
     parch : {Num(0), Num(1)},
     fare : {Num(0), Num(50)},
     embarked : {Num(0), Num(2)}]

\* the widgets' defaults
DefaultArgs ==
    [pclass |-> Num(1), sex |-> Num(0), age |-> Num(30), sibsp |-> Num(0),
     parch |-> Num(0), fare |-> Num(50), embarked |-> Num(0)]

Validate(a) ==
    validate_inputs(a.pclass, a.sex, a.age, a.sibsp, a.parch, a.fare, a.embarked)

Predict(m, a) ==
    predict_survival(m, a.pclass, a.sex, a.age, a.sibsp, a.parch, a.fare, a.embarked)

ArgsVector(a) ==
    << <<a.pclass, a.sex, a.age, a.sibsp, a.parch, a.fare, a.embarked>> >>

NoLast ==
    [set |-> FALSE, model |-> NoModel, args |-> DefaultArgs,
     prediction |-> None, confidence |-> 0]

InitRun ==
    /\ pc = "start"
    /\ model = NoModel
    /\ loads = 0
    /\ args = DefaultArgs
    /\ is_valid = FALSE
    /\ error_message = ""
    /\ calls = <<>>
    /\ prediction = None
    /\ confidence = 0
    /\ conf_source = "unset"
    /\ shown = <<>>

Init ==
    /\ InitRun
    /\ run = 1
    /\ artifact \in Artifacts
    /\ last = NoLast

\* variant: the except branches report and return, without st.stop()
load_model_ReturnsNone ==
    /\ pc = "start"
    /\ loads' = loads + 1
    /\ IF artifact.state = "ok"
       THEN /\ model' = artifact.obj
            /\ shown' = shown
       ELSE /\ model' = NoModel
            /\ shown' = Append(shown, IF artifact.state = "missing"
                                      THEN "model file not found"
                                      ELSE "error loading model")
    /\ pc' = "form"
    /\ UNCHANGED <<run, artifact, args, is_valid, error_message, calls,
                   prediction, confidence, conf_source, last>>

\* load_model, lines 43-54, called at line 137: st.stop() ends the run
load_model ==
    /\ pc = "start"
    /\ loads' = loads + 1
    /\ IF artifact.state = "ok"
       THEN /\ model' = artifact.obj
            /\ shown' = shown
            /\ pc' = "form"
       ELSE /\ model' = NoModel
            /\ shown' = Append(shown, IF artifact.state = "missing"
                                      THEN "model file not found"
                                      ELSE "error loading model")
            /\ pc' = "stopped"
    /\ UNCHANGED <<run, artifact, args, is_valid, error_message, calls,
                   prediction, confidence, conf_source, last>>

\* lines 139-169: the form is rendered with the user's values; the run
\* goes on to the request only when the button was pressed
Form ==
    /\ pc = "form"
    /\ \E a \in WidgetArgs, pressed \in BOOLEAN :
          /\ args' = a
          /\ pc' = IF pressed THEN "clicked" ELSE "end"
    /\ UNCHANGED <<run, artifact, model, loads, is_valid, error_message, calls,
                   prediction, confidence, conf_source, shown, last>>

\* variant: the return of line 176 is missing
ValidateRequest_NoReturn ==
    /\ pc = "clicked"
    /\ is_valid' = Validate(args)[1]
    /\ error_message' = Validate(args)[2]
    /\ IF Validate(args)[1]
       THEN shown' = shown
       ELSE shown' = Append(shown, "validation error")
    /\ pc' = "valid"
    /\ UNCHANGED <<run, artifact, model, loads, args, calls, prediction,
                   confidence, conf_source, last>>

\* lines 172-176: validation, and the early return
ValidateRequest ==
    /\ pc = "clicked"
    /\ is_valid' = Validate(args)[1]
    /\ error_message' = Validate(args)[2]
    /\ IF Validate(args)[1]
       THEN /\ shown' = shown
            /\ pc' = "valid"
       ELSE /\ shown' = Append(shown, "validation error")
            /\ pc' = "end"
    /\ UNCHANGED <<run, artifact, model, loads, args, calls, prediction,
                   confidence, conf_source, last>>

\* line 179: the call of predict_survival
PredictRequest ==
    /\ pc = "valid"
    /\ LET r == Predict(model, args)
       IN  /\ prediction' = r.prediction
           /\ confidence' = r.confidence
           /\ conf_source' = r.source
           /\ calls' = calls \o r.calls
           /\ shown' = IF r.st_error THEN Append(shown, "prediction error")
                       ELSE shown
    /\ pc' = "predicted"
    /\ UNCHANGED <<run, artifact, model, loads, args, is_valid, error_message,
                   last>>

\* variant: the test of line 181 is missing
RenderResult_Always ==
    /\ pc = "predicted"
    /\ shown' = Append(shown, "result")
    /\ pc' = "end"
    /\ UNCHANGED <<run, artifact, model, loads, args, is_valid, error_message,
                   calls, prediction, confidence, conf_source, last>>

\* lines 181-211: the result is rendered when the label is not None
RenderResult ==
    /\ pc = "predicted"
    /\ IF prediction # None
       THEN shown' = Append(shown, "result")
       ELSE shown' = shown
    /\ pc' = "end"
    /\ UNCHANGED <<run, artifact, model, loads, args, is_valid, error_message,
                   calls, prediction, confidence, conf_source, last>>

\* the next interaction reruns the script from its first line; last keeps
\* the finished run's predict_survival call for comparison
Rerun ==
    /\ pc \in {"end", "stopped"}
    /\ run < MaxRuns
    /\ run' = run + 1
    /\ last' = IF calls # <<>>
               THEN [set |-> TRUE, model |-> model, args |-> args,
                     prediction |-> prediction, confidence |-> confidence]
               ELSE last
    /\ pc' = "start"
    /\ model' = NoModel
    /\ loads' = 0
    /\ args' = DefaultArgs
    /\ is_valid' = FALSE
    /\ error_message' = ""
    /\ calls' = <<>>
    /\ prediction' = None
    /\ confidence' = 0
    /\ conf_source' = "unset"
    /\ shown' = <<>>
    /\ UNCHANGED artifact

Next ==
    \/ load_model
    \/ Form
    \/ ValidateRequest
    \/ PredictRequest
    \/ RenderResult
    \/ Rerun

Spec == Init /\ [][Next]_vars

----------------------------------------------------------------------------
(* validate_inputs called on its own, with any values a caller may pass *)

Alphabet == {"-", "0", "9", "a"}

Strings == UNION {[1..k -> Alphabet] : k \in 0..MaxLen}

NearZero == (0 - Slack)..Slack

NearAgeMax == (AgeMax - Slack)..(AgeMax + Slack)

AgeValues ==
    {None} \cup {Num(k) : k \in NearZero \cup NearAgeMax}
           \cup {Str(q) : q \in Strings}

FareValues == {None} \cup {Num(k) : k \in NearZero} \cup {Str(q) : q \in Strings}

CategoryValues == {None, Num(0), Num(1)}

CallArgs ==
    [pclass : CategoryValues,
     sex : CategoryValues,
     age : AgeValues,
     sibsp : CategoryValues,
     parch : CategoryValues,
     fare : FareValues,
     embarked : CategoryValues]

InitValidate ==
    /\ pc = "call"
    /\ args \in CallArgs
    /\ run = 1
    /\ artifact = [state |-> "missing", obj |-> NoModel]
    /\ model = NoModel
    /\ loads = 0
    /\ is_valid = FALSE
    /\ error_message = ""
    /\ calls = <<>>
    /\ prediction = None
    /\ confidence = 0
    /\ conf_source = "unset"
    /\ shown = <<>>
    /\ last = NoLast

\* one call of validate_inputs, lines 56-78
ValidateCall ==
    /\ pc = "call"
    /\ is_valid' = Validate(args)[1]
    /\ error_message' = Validate(args)[2]
    /\ pc' = "returned"
    /\ UNCHANGED <<run, artifact, model, loads, args, calls, prediction,
                   confidence, conf_source, shown, last>>

NextValidate == ValidateCall

SpecValidate == InitValidate /\ [][NextValidate]_vars

----------------------------------------------------------------------------
(* Properties of validate_inputs, under SpecValidate *)

Returned == pc = "returned"

\* a field is supplied when it is neither None nor the empty string
Supplied(v) == v # None /\ v # Str(<<>>)

AllSupplied(a) ==
    /\ Supplied(a.pclass) /\ Supplied(a.sex) /\ Supplied(a.age)
    /\ Supplied(a.sibsp) /\ Supplied(a.parch) /\ Supplied(a.fare)
    /\ Supplied(a.embarked)

AgeInRange(v) == float(v).ok /\ float(v).val >= 0 /\ float(v).val <= AgeMax

FareInRange(v) == float(v).ok /\ float(v).val >= 0

\* the five fields that have no range check are present and non-zero
CategoriesSet(a) ==
    /\ Truthy(a.pclass) /\ Truthy(a.sex) /\ Truthy(a.sibsp)
    /\ Truthy(a.parch) /\ Truthy(a.embarked)

\* C1: every record whose seven fields are all supplied, whose age is in
\* [0,120] and whose fare is >= 0 is accepted with an empty reason, whatever
\* the values of the other five fields, 0 included.
C1_SuppliedInRangeAccepted ==
    (Returned /\ AllSupplied(args) /\ AgeInRange(args.age) /\ FareInRange(args.fare))
        => (is_valid /\ error_message = "")

\* C2: with the other fields present and valid, a supplied fare that is
\* negative or no number is refused with a fare reason, and a fare of 0 or
\* more is accepted.
C2_FareCheck ==
    (Returned /\ CategoriesSet(args) /\ Truthy(args.age) /\ AgeInRange(args.age)
        /\ Supplied(args.fare))
        => /\ ~FareInRange(args.fare)
                => (~is_valid /\ error_message \in {MsgFareNegative, MsgFareNumber})
           /\ FareInRange(args.fare) => (is_valid /\ error_message = "")

\* C3: with the other fields present and valid, a supplied age that is
\* outside [0,120] or no number is refused with an age reason, and an age in
\* [0,120], 0 and 120 included, is not refused.
C3_AgeCheck ==
    (Returned /\ CategoriesSet(args) /\ Truthy(args.fare) /\ FareInRange(args.fare)
        /\ Supplied(args.age))
        => /\ ~AgeInRange(args.age)
                => (~is_valid /\ error_message \in {MsgAgeRange, MsgAgeNumber})
           /\ AgeInRange(args.age) => (is_valid /\ error_message = "")

\* C4: a record with at least one field missing (None or the empty string)
\* is refused with the missing-field reason, whatever the other fields hold,
\* age and fare out of range included.
C4_MissingFieldRefused ==
    (Returned /\ ~AllSupplied(args))
        => (~is_valid /\ error_message = MsgRequired)

\* C4's case: a field is missing while age and fare would fail their own checks
C4_Witness ==
    /\ Returned
    /\ args.sex = None
    /\ args.age = Num(AgeMax + 1)
    /\ args.fare = Str(<<"a">>)
    /\ ~is_valid
    /\ error_message = MsgRequired

----------------------------------------------------------------------------
(* Properties of the script run, under Spec *)

\* predict_survival has been called in this run
Predicted == pc \in {"predicted", "end"} /\ is_valid

IsShown(what) == \E i \in 1..Len(shown) : shown[i] = what

\* C5: a model invocation happens only after the same request's attributes
\* passed validation, and a failed validation ends the run with no model call.
C5_ValidationBeforeModel ==
    /\ calls # <<>>
        => /\ is_valid
           /\ Validate(args)[1]
           /\ \A i \in 1..Len(calls) : calls[i].features = ArgsVector(args)
    /\ IsShown("validation error") => (pc = "end" /\ calls = <<>> /\ ~is_valid)

\* C5's case: Predict was pressed, validation failed, the run is over
C5_Witness ==
    /\ pc = "end"
    /\ shown = <<"validation error">>
    /\ error_message = MsgRequired
    /\ calls = <<>>

\* C6: when model.predict raises, predict_survival returns a None label, has
\* invoked model.predict exactly once and predict_proba not at all, and main
\* renders a result only for a label that is not None.
C6_PredictRaises ==
    /\ (Predicted /\ model.predict = "raise")
        => /\ prediction = None
           /\ calls = <<Call("predict", ArgsVector(args))>>
           /\ IsShown("prediction error")
    /\ IsShown("result") => prediction # None

\* C6's case: a validated request whose model.predict raised, rendered
C6_Witness ==
    /\ pc = "end"
    /\ is_valid
    /\ model.predict = "raise"
    /\ model.proba = "row"
    /\ shown = <<"prediction error">>

\* C7: when model.predict succeeds and predict_proba is absent or raises,
\* the label is the one model.predict returned, the confidence is the 0.8
\* default, and the request is no prediction error.
C7_ProbaFallback ==
    (Predicted /\ model.predict # "raise" /\ model.proba \in {"absent", "raise"})
        => /\ model.predict = "zero" => prediction = Num(0)
           /\ model.predict = "one" => prediction = Num(1)
           /\ model.predict = "sex" => prediction = args.sex
           /\ confidence = DefaultConfidence
           /\ ~IsShown("prediction error")

\* C7's case: predict returned [0], predict_proba raised, the result is shown
C7_Witness ==
    /\ pc = "end"
    /\ model.predict = "zero"
    /\ model.proba = "raise"
    /\ prediction = Num(0)
    /\ confidence = DefaultConfidence
    /\ shown = <<"result">>

\* C8: when model.predict and predict_proba both succeed, the label is the
\* first element of predict's output and the confidence is the largest
\* probability of predict_proba's first row, taken from the row and not
\* from the default; predict -> [1] with predict_proba -> [[0.1, 0.9]]
\* gives (1, 0.9).
C8_ProbaConfidence ==
    (Predicted /\ model.predict # "raise" /\ model.proba = "row")
        => /\ model.predict = "zero" => prediction = Num(0)
           /\ model.predict = "one" => prediction = Num(1)
           /\ model.predict = "sex" => prediction = args.sex
           /\ \E i \in 1..Len(model.row) : confidence = model.row[i]
           /\ \A i \in 1..Len(model.row) : confidence >= model.row[i]
           /\ conf_source = "proba"
           /\ (model.predict = "one" /\ model.row = <<10, 90>>)
                => (prediction = Num(1) /\ confidence = 90)

\* C8's case: the stub of the example
C8_Witness ==
    /\ pc = "end"
    /\ model.predict = "one"
    /\ model.row = <<10, 90>>
    /\ prediction = Num(1)
    /\ confidence = 90
    /\ shown = <<"result">>

\* C9: when the artifact is missing or cannot be unpickled, the run stops in
\* load_model: nothing is validated, the model is never invoked, no value
\* stands in for the model, and the load is attempted once.
C9_LoadFailureStops ==
    artifact.state # "ok"
        => /\ pc \in {"start", "stopped"}
           /\ model = NoModel
           /\ calls = <<>>
           /\ ~is_valid /\ error_message = ""
           /\ prediction = None
           /\ loads <= 1
           /\ pc = "stopped" => (loads = 1 /\ Len(shown) = 1)

\* C9's case: a second run over an artifact that cannot be unpickled has stopped
C9_Witness ==
    /\ pc = "stopped"
    /\ run = 2
    /\ artifact.state = "corrupt"
    /\ loads = 1
    /\ shown = <<"error loading model">>

\* C10: every invocation of the model gets the one-row vector of the seven
\* attribute values, unchanged, in the order pclass, sex, age, sibsp, parch,
\* fare, embarked, the same for predict and predict_proba; and a run that
\* repeats the previous run's attributes on the same model gets the same
\* label and confidence.
C10_FeatureVector ==
    /\ \A i \in 1..Len(calls) :
          /\ Len(calls[i].features) = 1
          /\ calls[i].features[1] =
                <<args.pclass, args.sex, args.age, args.sibsp, args.parch,
                  args.fare, args.embarked>>
    /\ (Predicted /\ last.set /\ last.model = model /\ last.args = args)
        => (prediction = last.prediction /\ confidence = last.confidence)

\* C10's case: both capabilities invoked, on the attributes of the run before
C10_Witness ==
    /\ pc = "predicted"
    /\ Len(calls) = 2
    /\ calls[1].op = "predict" /\ calls[2].op = "predict_proba"
    /\ last.set /\ last.model = model /\ last.args = args
    /\ args.fare # args.embarked

====
